---- MODULE Spec2Model ----
(***************************************************************************)
(* The people-networking engine of src/networking/networking.py            *)
(* (class PeopleNetworking) and the callers that drive it.                  *)
(*                                                                         *)
(* Numbers.  The engine's matrices hold floating-point values produced by  *)
(* scikit-learn.  The model keeps them exact:                              *)
(*   - a TF-IDF weight is modelled by the term count it is derived from    *)
(*     (StandardScaler cancels the positive per-column idf factor; the l2  *)
(*     row normalisation of TfidfVectorizer is not modelled);              *)
(*   - a standardised feature (x - mean)/std is the pair <<num, rad>>,     *)
(*     standing for num / sqrt(rad);                                       *)
(*   - a cosine similarity c is the reduced fraction <<p, q>> = c * |c|,   *)
(*     which orders and compares exactly as c does.                        *)
(* An attribute that is None in the code is the empty tuple here, an      *)
(* attribute holding a value v is the one-element tuple <<v>>.             *)
(***************************************************************************)
EXTENDS Integers, Sequences, FiniteSets, TLC

VARIABLES
    people_data,        \* self.people_data: None or a DataFrame (rows of [name, preferences])
    vocabulary_,        \* self.vectorizer.vocabulary_: None or the fitted, sorted term list
    scaler,             \* self.scaler: None or the fitted column statistics
    feature_matrix,     \* self.feature_matrix
    similarity_matrix,  \* self.similarity_matrix
    cluster_labels,     \* self.cluster_labels
    argsort_ties,       \* how this build's np.argsort orders equal keys
    kmeans_numbering,   \* how KMeans(random_state=42) numbers its clusters
    last,               \* the last call: operation, arguments, raised or returned value
    hist,               \* history of the calls made so far
    event_queue,        \* a2a_gateway: the events enqueued and not yet consumed
    matching_frame,     \* NetworkingTaskManager: the frame of _handle_similarity_matching
    adding_frame,       \* NetworkingTaskManager: the frame of add_person_to_network
    response            \* NetworkingTaskManager: None or the response to the latest request

engine == <<people_data, vocabulary_, scaler, feature_matrix, similarity_matrix, cluster_labels>>
callers == <<event_queue, matching_frame, adding_frame, response>>
vars == <<people_data, vocabulary_, scaler, feature_matrix, similarity_matrix, cluster_labels,
          argsort_ties, kmeans_numbering, last, hist,
          event_queue, matching_frame, adding_frame, response>>

None == <<>>
Some(v) == <<v>>
Val(x) == x[1]

(***************************************************************************)
(* Bounds of the model and the inputs the calls are made with.             *)
(***************************************************************************)
MaxK == 2
MaxClusters == 3

\* The people, and the lower-cased, tokenised preference texts each of them
\* may state.  "the" is an English stop word.
People == <<"A", "B", "C">>
Names == {People[i] : i \in 1..Len(People)}
UnknownName == "Z"

Alphabet == <<"pizza", "sushi", "the">>
StopWords == {"the"}
Prefs == [n \in Names |->
            CASE n = "A" -> { <<"the">>, <<"pizza">> }
              [] n = "B" -> { <<"pizza">>, <<"pizza", "sushi">> }
              [] OTHER   -> { <<"pizza">> }]

\* Program constants: the defaults of PeopleNetworking.__init__.
max_features == 1000
min_df == 1
max_df_percent == 95

(***************************************************************************)
(* Arithmetic helpers.                                                     *)
(***************************************************************************)
Sign(x) == IF x < 0 THEN -1 ELSE IF x = 0 THEN 0 ELSE 1
Min(a, b) == IF a < b THEN a ELSE b

RECURSIVE GCD(_, _)
GCD(a, b) == IF b = 0 THEN a ELSE GCD(b, a % b)

LCM(a, b) == (a * b) \div GCD(a, b)

RECURSIVE SumSeq(_)
SumSeq(s) == IF s = <<>> THEN 0 ELSE Head(s) + SumSeq(Tail(s))

RECURSIVE LCMSeq(_)
LCMSeq(s) == IF s = <<>> THEN 1 ELSE LCM(Head(s), LCMSeq(Tail(s)))

Range(s) == {s[i] : i \in 1..Len(s)}

\* The sequences over S without repetition, of length at most n.
RECURSIVE DistinctSeqs(_, _)
DistinctSeqs(S, n) ==
    IF n = 0 THEN {<<>>}
    ELSE LET shorter == DistinctSeqs(S, n - 1)
         IN  shorter \cup UNION {{Append(s, x) : x \in S \ Range(s)} : s \in shorter}

(***************************************************************************)
(* Ordering of vocabulary terms.  A term is a tuple of one or two words;   *)
(* scikit-learn sorts the terms as strings, words being joined by a blank, *)
(* which sorts before every letter.                                        *)
(***************************************************************************)
WordRank(w) == CHOOSE i \in 1..Len(Alphabet) : Alphabet[i] = w

TermLess(t, u) ==
    \/ WordRank(t[1]) < WordRank(u[1])
    \/ /\ t[1] = u[1]
       /\ \/ Len(t) < Len(u)
          \/ Len(t) = 2 /\ Len(u) = 2 /\ WordRank(t[2]) < WordRank(u[2])

\* sorted(S) under TermLess.
SortedTerms(S) ==
    CHOOSE s \in DistinctSeqs(S, Cardinality(S)) :
        /\ Len(s) = Cardinality(S)
        /\ \A i \in 1..Len(s) - 1 : TermLess(s[i], s[i + 1])

(***************************************************************************)
(* pd.DataFrame([{'name': ..., 'preferences': ...} for ... in items()]).   *)
(* A mapping is given as the sequence of its items, in iteration order.    *)
(* An empty list of records makes a frame with no rows and no columns.     *)
(***************************************************************************)
DataFrame(people_preferences) ==
    [i \in 1..Len(people_preferences) |->
        [name |-> people_preferences[i][1], preferences |-> people_preferences[i][2]]]

HasColumns(df) == Len(df) > 0

\* dict(zip(df['name'], df['preferences'])): the mapping a frame was built from.
MappingOf(df) == [i \in 1..Len(df) |-> <<df[i].name, df[i].preferences>>]

(***************************************************************************)
(* TfidfVectorizer(max_features, min_df, max_df, stop_words='english',     *)
(*                 lowercase=True, ngram_range=(1, 2)).fit_transform       *)
(***************************************************************************)
\* The analyzer: drop the stop words, then emit the uni- and bigrams.
Tokens(text) == SelectSeq(text, LAMBDA w : w \notin StopWords)

Ngrams(text) ==
    LET t == Tokens(text)
        pairs == IF Len(t) = 0 THEN 0 ELSE Len(t) - 1
    IN  [i \in 1..Len(t) |-> <<t[i]>>] \o [i \in 1..pairs |-> <<t[i], t[i + 1]>>]

TermCount(term, text) ==
    LET g == Ngrams(text) IN Cardinality({i \in 1..Len(g) : g[i] = term})

DocFreq(term, docs) == Cardinality({i \in 1..Len(docs) : TermCount(term, docs[i]) > 0})

TotalCount(term, docs) == SumSeq([i \in 1..Len(docs) |-> TermCount(term, docs[i])])

AllTerms(docs) == UNION {Range(Ngrams(docs[i])) : i \in 1..Len(docs)}

\* _limit_features of a vectorizer built with max_df=1.0: no term is dropped
\* for being in too many documents.
KeptTermsAnyDf(docs) ==
    LET inDf == {t \in AllTerms(docs) : DocFreq(t, docs) >= min_df}
    IN  IF Cardinality(inDf) <= max_features THEN inDf
        ELSE CHOOSE K \in SUBSET inDf :
                /\ Cardinality(K) = max_features
                /\ \A t \in K, u \in inDf \ K : TotalCount(t, docs) >= TotalCount(u, docs)

\* _limit_features: the terms whose document frequency lies in
\* [min_df, max_df * n_doc]; at most max_features of them, the most frequent.
KeptTerms(docs) ==
    LET inDf == {t \in AllTerms(docs) :
                    /\ DocFreq(t, docs) >= min_df
                    /\ DocFreq(t, docs) * 100 <= max_df_percent * Len(docs)}
    IN  IF Cardinality(inDf) <= max_features THEN inDf
        ELSE CHOOSE K \in SUBSET inDf :
                /\ Cardinality(K) = max_features
                /\ \A t \in K, u \in inDf \ K : TotalCount(t, docs) >= TotalCount(u, docs)

\* A vectorizer that accepts an empty vocabulary: only the test of max_df
\* against min_df is left.
VectorizerRaisesOnDfOnly(docs) ==
    max_df_percent * Len(docs) < min_df * 100

\* fit_transform raises ValueError: "empty vocabulary", "max_df corresponds to
\* < documents than min_df", or "After pruning, no terms remain".
VectorizerRaises(docs) ==
    \/ AllTerms(docs) = {}
    \/ max_df_percent * Len(docs) < min_df * 100
    \/ KeptTerms(docs) = {}

FitVocabulary(docs) == SortedTerms(KeptTerms(docs))

\* The document-term matrix, one row per document, one column per term.
CountMatrix(docs, vocab) ==
    [i \in 1..Len(docs) |-> [j \in 1..Len(vocab) |-> TermCount(vocab[j], docs[i])]]

(***************************************************************************)
(* StandardScaler().fit_transform: per column, mean and variance over the  *)
(* rows; a column of zero variance is scaled by 1, so it becomes zero.     *)
(***************************************************************************)
ColSum(X, j) == SumSeq([i \in 1..Len(X) |-> X[i][j]])
ColSumSq(X, j) == SumSeq([i \in 1..Len(X) |-> X[i][j] * X[i][j]])

\* mean_[j] = sum[j] / n, var_[j] = varnum[j] / n^2.
FitScaler(X) ==
    LET n == Len(X)
        cols == IF n = 0 THEN 0 ELSE Len(X[1])
    IN  [n_samples |-> n,
         sum |-> [j \in 1..cols |-> ColSum(X, j)],
         varnum |-> [j \in 1..cols |-> n * ColSumSq(X, j) - ColSum(X, j) * ColSum(X, j)]]

\* (x - mean) / std, as <<num, rad>> = num / sqrt(rad).
Scaled(x, st, j) ==
    IF st.varnum[j] = 0 THEN <<0, 1>>
    ELSE <<st.n_samples * x - st.sum[j], st.varnum[j]>>

ScalerTransform(X, st) ==
    [i \in 1..Len(X) |-> [j \in 1..Len(X[i]) |-> Scaled(X[i][j], st, j)]]

(***************************************************************************)
(* cosine_similarity(F): rows are normalised (a zero row stays zero) and   *)
(* multiplied.  Dot(F, a, b) is the dot product of rows a and b times the  *)
(* least common multiple of the columns' radicands.                        *)
(***************************************************************************)
Dot(F, a, b) ==
    LET cols == Len(F[a])
        L == LCMSeq([j \in 1..cols |-> F[a][j][2]])
    IN  SumSeq([j \in 1..cols |-> F[a][j][1] * F[b][j][1] * (L \div F[a][j][2])])

\* A cosine normalised by the norm of row a alone: c = a.b / a.a.
CosineLeftNormalised(F, a, b) ==
    LET ab == Dot(F, a, b)
        aa == Dot(F, a, a)
    IN  IF aa = 0 \/ ab = 0 THEN <<0, 1>>
        ELSE LET g == GCD(ab * ab, aa * aa)
             IN  <<Sign(ab) * ((ab * ab) \div g), (aa * aa) \div g>>

\* c * |c| for the cosine c of rows a and b, as a reduced fraction.
Cosine(F, a, b) ==
    LET ab == Dot(F, a, b)
        aa == Dot(F, a, a)
        bb == Dot(F, b, b)
    IN  IF aa = 0 \/ bb = 0 \/ ab = 0 THEN <<0, 1>>
        ELSE LET g == GCD(ab * ab, aa * bb)
             IN  <<Sign(ab) * ((ab * ab) \div g), (aa * bb) \div g>>

cosine_similarity(F) == [a \in 1..Len(F) |-> [b \in 1..Len(F) |-> Cosine(F, a, b)]]

\* Order of two scores.
ScoreLess(s, t) == s[1] * t[2] < t[1] * s[2]

(***************************************************************************)
(* The mappings add_people is called with: the items of a dict, in its    *)
(* iteration order, with distinct keys.                                    *)
(***************************************************************************)
NameOrders == {SubSeq(People, 1, n) : n \in 0..Len(People)}

Mappings ==
    UNION {{[i \in 1..Len(ns) |-> <<ns[i], f[i]>>] :
                f \in {g \in [1..Len(ns) -> UNION {Prefs[n] : n \in Names}] :
                          \A i \in 1..Len(ns) : g[i] \in Prefs[ns[i]]}} :
              ns \in NameOrders}

\* The one-item mappings of POST /networking/add-person.
Profiles == {<< <<n, t>> >> : n \in Names, t \in UNION {Prefs[x] : x \in Names}}

Column(df, c) == [i \in 1..Len(df) |-> df[i][c]]

(***************************************************************************)
(* _vectorize_preferences on the frame df: whether it raises (KeyError on  *)
(* a frame without columns, or the ValueError of fit_transform) and, when  *)
(* it does not, what it leaves in the vectorizer, the scaler and the two   *)
(* matrices.                                                               *)
(***************************************************************************)
vectorize_preferences(df) ==
    LET docs == Column(df, "preferences")
    IN  IF ~HasColumns(df) \/ VectorizerRaises(docs)
        THEN [raises |-> TRUE]
        ELSE LET vocab == FitVocabulary(docs)
                 tfidf == CountMatrix(docs, vocab)
                 st == FitScaler(tfidf)
                 F == ScalerTransform(tfidf, st)
             IN  [raises |-> FALSE, vocabulary_ |-> vocab, scaler |-> st,
                  feature_matrix |-> F, similarity_matrix |-> cosine_similarity(F)]

\* The same, tabulated once for the frames of the model.
Vectorized == [m \in Mappings \cup Profiles |-> vectorize_preferences(DataFrame(m))]

(***************************************************************************)
(* The state after PeopleNetworking().                                     *)
(***************************************************************************)
NoCall == [op |-> "none", args |-> <<>>, raised |-> FALSE, value |-> <<>>]
Raised(op, args) == [op |-> op, args |-> args, raised |-> TRUE, value |-> <<>>]
Returned(op, args, v) == [op |-> op, args |-> args, raised |-> FALSE, value |-> v]

\* np.argsort (kind='quicksort') is not stable: the order of equal keys is the
\* build's.  KMeans numbers its clusters by its seeded choice of centres.
\* A coroutine that is not running.
Idle == [pc |-> "idle"]

Builds == { <<"low_index_first", "first_seen">>, <<"high_index_first", "reversed">> }

Init ==
    /\ people_data = None
    /\ vocabulary_ = None
    /\ scaler = None
    /\ feature_matrix = None
    /\ similarity_matrix = None
    /\ cluster_labels = None
    /\ \E b \in Builds : argsort_ties = b[1] /\ kmeans_numbering = b[2]
    /\ last = NoCall
    /\ hist = [added |-> FALSE, ingested |-> FALSE, clustered |-> FALSE,
               clustered_since_add |-> FALSE]
    /\ event_queue = <<>>
    /\ matching_frame = Idle
    /\ adding_frame = Idle
    /\ response = None

(***************************************************************************)
(* add_people                                                              *)
(***************************************************************************)
\* add_people whose vectorizer, once fitted, is not fitted again
\* (vectorizer.transform in place of fit_transform at line 74).
add_people_fitted_once(people_preferences) ==
    LET v == Vectorized[people_preferences]
        df == DataFrame(people_preferences)
        vocab == IF vocabulary_ = None THEN v.vocabulary_ ELSE Val(vocabulary_)
        tfidf == CountMatrix(Column(df, "preferences"), vocab)
        st == FitScaler(tfidf)
        F == ScalerTransform(tfidf, st)
    IN  /\ people_data' = Some(df)
        /\ IF v.raises
           THEN /\ UNCHANGED <<vocabulary_, scaler, feature_matrix, similarity_matrix>>
                /\ hist' = [hist EXCEPT !.added = TRUE, !.ingested = FALSE,
                                        !.clustered_since_add = FALSE]
           ELSE /\ vocabulary_' = Some(vocab)
                /\ scaler' = Some(st)
                /\ feature_matrix' = Some(F)
                /\ similarity_matrix' = Some(cosine_similarity(F))
                /\ hist' = [hist EXCEPT !.added = TRUE, !.ingested = TRUE,
                                        !.clustered_since_add = FALSE]
        /\ UNCHANGED <<cluster_labels, argsort_ties, kmeans_numbering>>

\* add_people that appends the new rows to the frame it holds
\* (pd.concat in place of the assignment of lines 60-63).
add_people_merging(people_preferences) ==
    LET v == Vectorized[people_preferences]
        held == IF people_data = None THEN <<>> ELSE Val(people_data)
    IN  /\ people_data' = Some(held \o DataFrame(people_preferences))
        /\ IF v.raises
           THEN /\ UNCHANGED <<vocabulary_, scaler, feature_matrix, similarity_matrix>>
                /\ hist' = [hist EXCEPT !.added = TRUE, !.ingested = FALSE,
                                        !.clustered_since_add = FALSE]
           ELSE /\ vocabulary_' = Some(v.vocabulary_)
                /\ scaler' = Some(v.scaler)
                /\ feature_matrix' = Some(v.feature_matrix)
                /\ similarity_matrix' = Some(v.similarity_matrix)
                /\ hist' = [hist EXCEPT !.added = TRUE, !.ingested = TRUE,
                                        !.clustered_since_add = FALSE]
        /\ UNCHANGED <<cluster_labels, argsort_ties, kmeans_numbering>>

add_people(people_preferences) ==
    LET v == Vectorized[people_preferences]
    IN  /\ people_data' = Some(DataFrame(people_preferences))
        /\ IF v.raises
           THEN /\ UNCHANGED <<vocabulary_, scaler, feature_matrix, similarity_matrix>>
                /\ hist' = [hist EXCEPT !.added = TRUE, !.ingested = FALSE,
                                        !.clustered_since_add = FALSE]
           ELSE /\ vocabulary_' = Some(v.vocabulary_)
                /\ scaler' = Some(v.scaler)
                /\ feature_matrix' = Some(v.feature_matrix)
                /\ similarity_matrix' = Some(v.similarity_matrix)
                /\ hist' = [hist EXCEPT !.added = TRUE, !.ingested = TRUE,
                                        !.clustered_since_add = FALSE]
        /\ UNCHANGED <<cluster_labels, argsort_ties, kmeans_numbering>>

AddPeople ==
    \E m \in Mappings :
        /\ UNCHANGED callers
        /\ add_people(m)
        /\ last' = IF Vectorized[m].raises THEN Raised("add_people", <<m>>)
                   ELSE Returned("add_people", <<m>>, <<>>)

(***************************************************************************)
(* POST /networking/add-person (src/backend/networking_api.py): the        *)
(* handler calls add_people with the one person of the request and answers *)
(* 400 when it raises.                                                     *)
(***************************************************************************)
add_person(name, preferences) ==
    LET people_data_arg == << <<name, preferences>> >>
    IN  /\ add_people(people_data_arg)
        /\ last' = IF Vectorized[people_data_arg].raises
                   THEN Raised("add_person", <<name>>)
                   ELSE Returned("add_person", <<name>>, <<>>)

AddPerson == \E n \in Names : \E t \in Prefs[n] : add_person(n, t) /\ UNCHANGED callers

(***************************************************************************)
(* Clustering of the rows of a feature matrix.                             *)
(* A partition is written as the labelling that numbers its blocks in      *)
(* order of first appearance: the first row has label 0 and each row has   *)
(* at most one more than the largest label before it.                      *)
(***************************************************************************)
RECURSIVE MaxSeq(_)
MaxSeq(s) == IF s = <<>> THEN -1
             ELSE IF Head(s) > MaxSeq(Tail(s)) THEN Head(s) ELSE MaxSeq(Tail(s))

RECURSIVE FirstSeenLabellings(_)
FirstSeenLabellings(n) ==
    IF n = 0 THEN {<<>>}
    ELSE UNION {{Append(c, l) : l \in 0..(MaxSeq(c) + 1)} : c \in FirstSeenLabellings(n - 1)}

\* Squared Euclidean distance of rows a and b, times the least common
\* multiple of the columns' radicands.
Dist2(F, a, b) ==
    LET cols == Len(F[a])
        L == LCMSeq([j \in 1..cols |-> F[a][j][2]])
    IN  SumSeq([j \in 1..cols |->
            (F[a][j][1] - F[b][j][1]) * (F[a][j][1] - F[b][j][1]) * (L \div F[a][j][2])])

Members(c, l) == {i \in 1..Len(c) : c[i] = l}

\* The sum of the squared distances of the pairs of rows in B.
RECURSIVE PairDist2(_, _)
PairDist2(F, P) ==
    IF P = {} THEN 0
    ELSE LET p == CHOOSE q \in P : TRUE
         IN  Dist2(F, p[1], p[2]) + PairDist2(F, P \ {p})

\* Within-cluster sum of squares of the labelling c, times a common factor:
\* the sum of the squared distances to the centre of a block B is the sum of
\* the squared distances of its pairs divided by |B|.
Inertia(F, c) ==
    LET K == LCMSeq([i \in 1..Len(c) |-> i])
        block(l) == LET B == Members(c, l)
                    IN  (K \div Cardinality(B)) * PairDist2(F, {p \in B \X B : p[1] < p[2]})
    IN  SumSeq([l \in 1..(MaxSeq(c) + 1) |-> block(l - 1)])

DistinctRows(F) == Cardinality({F[i] : i \in 1..Len(F)})

\* The partition KMeans(n_clusters, n_init=10) converges to: equal rows share
\* a centre, there are n_clusters blocks (fewer when there are fewer distinct
\* rows), and the inertia is least.
KMeansPartition(F, n_clusters) ==
    LET ok(c) == /\ MaxSeq(c) + 1 = Min(n_clusters, DistinctRows(F))
                 /\ \A a, b \in 1..Len(F) : F[a] = F[b] => c[a] = c[b]
        cands == {c \in FirstSeenLabellings(Len(F)) : ok(c)}
    IN  CHOOSE c \in cands : \A d \in cands : Inertia(F, c) <= Inertia(F, d)

\* KMeans(...).fit_predict raises for n_clusters < 1 and for more clusters
\* than samples.
KMeansRaises(F, n_clusters) == n_clusters < 1 \/ Len(F) < n_clusters

\* The labels: the partition, numbered by the order the seeded initialisation
\* picked the centres in.
KMeansLabels(F, n_clusters, numbering) ==
    LET c == KMeansPartition(F, n_clusters)
    IN  IF numbering = "first_seen" THEN c
        ELSE [i \in 1..Len(c) |-> n_clusters - 1 - c[i]]

(***************************************************************************)
(* AgglomerativeClustering(n_clusters) (Ward linkage) and the numbering of *)
(* its clusters by _hc_cut.  Leaves are the nodes 0..n-1 (row i is leaf    *)
(* i-1); the t-th merge makes node n+t-1.                                  *)
(***************************************************************************)
CrossDist2(F, A, B) == PairDist2(F, A \X B)
InnerDist2(F, A) == PairDist2(F, {p \in A \X A : p[1] < p[2]})

\* Ward's increase of the inertia when A and B merge, as a fraction.
WardNum(F, A, B) ==
    Cardinality(A) * Cardinality(B) * CrossDist2(F, A, B)
        - Cardinality(B) * Cardinality(B) * InnerDist2(F, A)
        - Cardinality(A) * Cardinality(A) * InnerDist2(F, B)
WardDen(A, B) == Cardinality(A) * Cardinality(B) * (Cardinality(A) + Cardinality(B))

WardLess(F, p, q) ==
    WardNum(F, p[1], p[2]) * WardDen(q[1], q[2]) < WardNum(F, q[1], q[2]) * WardDen(p[1], p[2])

\* active: node id -> the rows below it; children: the merges made so far.
RECURSIVE WardTree(_, _, _)
WardTree(F, active, children) ==
    IF Cardinality(DOMAIN active) <= 1 THEN children
    ELSE LET ids == DOMAIN active
             pairs == {p \in ids \X ids : p[1] < p[2]}
             rows(p) == <<active[p[1]], active[p[2]]>>
             least == {p \in pairs : \A q \in pairs : ~WardLess(F, rows(q), rows(p))}
             m == CHOOSE p \in least :
                     \A q \in least : p[1] < q[1] \/ (p[1] = q[1] /\ p[2] <= q[2])
             new == Len(F) + Len(children)
         IN  WardTree(F,
                 [i \in (ids \ {m[1], m[2]}) \cup {new} |->
                     IF i = new THEN active[m[1]] \cup active[m[2]] ELSE active[i]],
                 Append(children, m))

Children(F) == WardTree(F, [i \in 0..(Len(F) - 1) |-> {i + 1}], <<>>)

\* heapq, on a list written as a sequence (position p of the list is s[p + 1]).
RECURSIVE SiftDown(_, _, _, _)
SiftDown(heap, startpos, pos, newitem) ==
    IF pos > startpos /\ newitem < heap[((pos - 1) \div 2) + 1]
    THEN SiftDown([heap EXCEPT ![pos + 1] = heap[((pos - 1) \div 2) + 1]],
                  startpos, (pos - 1) \div 2, newitem)
    ELSE [heap EXCEPT ![pos + 1] = newitem]

RECURSIVE SiftUpLoop(_, _, _)
SiftUpLoop(heap, pos, newitem) ==
    LET endpos == Len(heap)
        left == 2 * pos + 1
        right == left + 1
        childpos == IF right < endpos /\ ~(heap[left + 1] < heap[right + 1]) THEN right ELSE left
    IN  IF left < endpos
        THEN SiftUpLoop([heap EXCEPT ![pos + 1] = heap[childpos + 1]], childpos, newitem)
        ELSE SiftDown(heap, 0, pos, newitem)

heappush(heap, item) == SiftDown(Append(heap, item), 0, Len(heap), item)

\* The heap after heappushpop(heap, item).
heappushpop(heap, item) ==
    IF heap # <<>> /\ heap[1] < item THEN SiftUpLoop([heap EXCEPT ![1] = item], 0, item)
    ELSE heap

RECURSIVE Descendants(_, _, _)
Descendants(node, children, n_leaves) ==
    IF node < n_leaves THEN {node}
    ELSE Descendants(children[node - n_leaves + 1][1], children, n_leaves)
             \cup Descendants(children[node - n_leaves + 1][2], children, n_leaves)

RECURSIVE CutNodes(_, _, _, _)
CutNodes(nodes, children, n_leaves, splits) ==
    IF splits = 0 THEN nodes
    ELSE LET these == children[(-nodes[1]) - n_leaves + 1]
         IN  CutNodes(heappushpop(heappush(nodes, -these[1]), -these[2]),
                      children, n_leaves, splits - 1)

\* _hc_cut: label i goes to the leaves below the i-th node of the heap.
hc_cut(n_clusters, children, n_leaves) ==
    LET root == n_leaves + Len(children) - 1
        nodes == CutNodes(<<-root>>, children, n_leaves, n_clusters - 1)
    IN  [leaf \in 1..n_leaves |->
            (CHOOSE i \in 1..Len(nodes) :
                (leaf - 1) \in Descendants(-nodes[i], children, n_leaves)) - 1]

\* fit_predict raises for n_clusters < 1, for fewer than 2 samples and for more
\* clusters than samples.
HierarchicalRaises(F, n_clusters) == n_clusters < 1 \/ Len(F) < 2 \/ n_clusters > Len(F)

HierarchicalLabels(F, n_clusters) == hc_cut(n_clusters, Children(F), Len(F))

(***************************************************************************)
(* cluster_people                                                          *)
(***************************************************************************)
Methods == {"kmeans", "hierarchical", "spectral"}
ClusterCounts == 0..MaxClusters

\* fit_predict with the number of clusters cut down to the number of rows.
fit_predict_clamped(method, n_clusters, F, numbering) ==
    LET n == Min(n_clusters, Len(F))
    IN  IF method = "kmeans"
        THEN IF KMeansRaises(F, n) THEN [raises |-> TRUE]
             ELSE [raises |-> FALSE, labels |-> KMeansLabels(F, n, numbering)]
        ELSE IF HierarchicalRaises(F, n) THEN [raises |-> TRUE]
             ELSE [raises |-> FALSE, labels |-> HierarchicalLabels(F, n)]

\* clusterer.fit_predict(F): whether it raises, and the labels when it does not.
fit_predict(method, n_clusters, F, numbering) ==
    IF method = "kmeans"
    THEN IF KMeansRaises(F, n_clusters) THEN [raises |-> TRUE]
         ELSE [raises |-> FALSE, labels |-> KMeansLabels(F, n_clusters, numbering)]
    ELSE IF HierarchicalRaises(F, n_clusters) THEN [raises |-> TRUE]
         ELSE [raises |-> FALSE, labels |-> HierarchicalLabels(F, n_clusters)]

\* The same, tabulated once for the feature matrices of the model.
FeatureMatrices ==
    {Vectorized[m].feature_matrix : m \in {x \in Mappings \cup Profiles : ~Vectorized[x].raises}}

FitPredict ==
    [method \in {"kmeans", "hierarchical"}, n_clusters \in ClusterCounts,
     F \in FeatureMatrices, numbering \in {b[2] : b \in Builds} |->
        fit_predict(method, n_clusters, F, numbering)]

\* cluster_people with KMeans built without random_state=42: each call numbers
\* the clusters by its own random choice of centres.
cluster_people_unseeded(n_clusters, method) ==
    LET call == <<n_clusters, method>>
        fail == /\ last' = Raised("cluster_people", call)
                /\ UNCHANGED hist
    IN
    /\ UNCHANGED <<people_data, vocabulary_, scaler, feature_matrix, similarity_matrix,
                   argsort_ties, kmeans_numbering>>
    /\ IF feature_matrix = None \/ method \notin {"kmeans", "hierarchical"}
       THEN fail /\ UNCHANGED cluster_labels
       ELSE \E numbering \in {b[2] : b \in Builds} :
            LET fit == FitPredict[method, n_clusters, Val(feature_matrix), numbering]
                df == Val(people_data)
            IN  IF fit.raises
                THEN fail /\ UNCHANGED cluster_labels
                ELSE /\ cluster_labels' = Some(fit.labels)
                     /\ IF ~HasColumns(df) \/ Len(df) > Len(fit.labels)
                        THEN fail
                        ELSE /\ last' = Returned("cluster_people", call,
                                           [i \in 1..Len(df) |-> <<df[i].name, fit.labels[i]>>])
                             /\ hist' = [hist EXCEPT !.clustered = TRUE,
                                                     !.clustered_since_add = TRUE]

\* cluster_people whose else branch (lines 100-101) falls back to KMeans.
cluster_people_default_kmeans(n_clusters, method) ==
    LET call == <<n_clusters, method>>
        fail == /\ last' = Raised("cluster_people", call)
                /\ UNCHANGED hist
        used == IF method = "hierarchical" THEN "hierarchical" ELSE "kmeans"
    IN
    /\ UNCHANGED <<people_data, vocabulary_, scaler, feature_matrix, similarity_matrix,
                   argsort_ties, kmeans_numbering>>
    /\ IF feature_matrix = None
       THEN fail /\ UNCHANGED cluster_labels
       ELSE LET fit == FitPredict[used, n_clusters, Val(feature_matrix), kmeans_numbering]
                df == Val(people_data)
            IN  IF fit.raises
                THEN fail /\ UNCHANGED cluster_labels
                ELSE /\ cluster_labels' = Some(fit.labels)
                     /\ IF ~HasColumns(df) \/ Len(df) > Len(fit.labels)
                        THEN fail
                        ELSE /\ last' = Returned("cluster_people", call,
                                           [i \in 1..Len(df) |-> <<df[i].name, fit.labels[i]>>])
                             /\ hist' = [hist EXCEPT !.clustered = TRUE,
                                                     !.clustered_since_add = TRUE]

cluster_people(n_clusters, method) ==
    LET call == <<n_clusters, method>>
        fail == /\ last' = Raised("cluster_people", call)
                /\ UNCHANGED hist
    IN
    /\ UNCHANGED <<people_data, vocabulary_, scaler, feature_matrix, similarity_matrix,
                   argsort_ties, kmeans_numbering>>
    /\ IF feature_matrix = None \/ method \notin {"kmeans", "hierarchical"}
       THEN fail /\ UNCHANGED cluster_labels
       ELSE LET fit == FitPredict[method, n_clusters, Val(feature_matrix), kmeans_numbering]
                df == Val(people_data)
            IN  IF fit.raises
                THEN fail /\ UNCHANGED cluster_labels
                ELSE /\ cluster_labels' = Some(fit.labels)
                     \* for i, name in enumerate(self.people_data['name']):
                     \*     cluster_mapping[name] = int(self.cluster_labels[i])
                     /\ IF ~HasColumns(df) \/ Len(df) > Len(fit.labels)
                        THEN fail
                        ELSE /\ last' = Returned("cluster_people", call,
                                           [i \in 1..Len(df) |-> <<df[i].name, fit.labels[i]>>])
                             /\ hist' = [hist EXCEPT !.clustered = TRUE,
                                                     !.clustered_since_add = TRUE]

ClusterPeople ==
    \E n \in ClusterCounts, method \in Methods : cluster_people(n, method) /\ UNCHANGED callers

(***************************************************************************)
(* Python and NumPy list operations.                                       *)
(***************************************************************************)
\* s[start:stop], positions counted from 0, negative ones from the end.
PyPos(i, n) == IF i < 0 THEN (IF n + i < 0 THEN 0 ELSE n + i) ELSE Min(i, n)
Slice(s, start, stop) ==
    LET a == PyPos(start, Len(s))
        b == PyPos(stop, Len(s))
    IN  IF a >= b THEN <<>> ELSE SubSeq(s, a + 1, b)

Reverse(s) == [i \in 1..Len(s) |-> s[Len(s) + 1 - i]]

\* np.argsort(keys): the indices in ascending order of key; equal keys in the
\* order of this build.
argsort(keys, ties) ==
    SortSeq([i \in 1..Len(keys) |-> i],
            LAMBDA a, b : \/ ScoreLess(keys[a], keys[b])
                          \/ /\ keys[a] = keys[b]
                             /\ IF ties = "low_index_first" THEN a < b ELSE a > b)

(***************************************************************************)
(* find_similar_people                                                     *)
(***************************************************************************)
KValues == {-2} \cup 0..MaxK

\* find_similar_people that sorts the row in place (similarities.sort()): the
\* row is a view of the similarity matrix.
find_similar_people_inplace(person_name, k) ==
    LET call == <<person_name, k>>
        df == Val(people_data)
        sim == Val(similarity_matrix)
        hits == {i \in 1..Len(df) : df[i].name = person_name}
        person_idx == CHOOSE i \in hits : \A j \in hits : i <= j
        similarities == sim[person_idx]
        similar_indices == Slice(Reverse(argsort(similarities, argsort_ties)), 1, k + 1)
    IN
    /\ UNCHANGED <<people_data, vocabulary_, scaler, feature_matrix, cluster_labels,
                   argsort_ties, kmeans_numbering, hist>>
    /\ IF \/ similarity_matrix = None
          \/ ~HasColumns(df)
          \/ hits = {}
          \/ person_idx > Len(sim)
       THEN /\ last' = Raised("find_similar_people", call)
            /\ UNCHANGED similarity_matrix
       ELSE /\ similarity_matrix' =
                   Some([sim EXCEPT ![person_idx] = SortSeq(similarities, ScoreLess)])
            /\ last' =
                 IF \E p \in 1..Len(similar_indices) : similar_indices[p] > Len(df)
                 THEN Raised("find_similar_people", call)
                 ELSE Returned("find_similar_people", call,
                          [p \in 1..Len(similar_indices) |->
                              <<df[similar_indices[p]].name, similarities[similar_indices[p]]>>])

\* find_similar_people without the test of lines 133-134: a name that is not
\* found gives the empty list.
find_similar_people_unchecked(person_name, k) ==
    LET call == <<person_name, k>>
        df == Val(people_data)
        hits == {i \in 1..Len(df) : df[i].name = person_name}
        person_idx == CHOOSE i \in hits : \A j \in hits : i <= j
        similarities == Val(similarity_matrix)[person_idx]
        similar_indices == Slice(Reverse(argsort(similarities, argsort_ties)), 1, k + 1)
    IN
    /\ UNCHANGED <<engine, argsort_ties, kmeans_numbering, hist>>
    /\ last' =
         IF similarity_matrix = None THEN Raised("find_similar_people", call)
         ELSE IF ~HasColumns(df) THEN Raised("find_similar_people", call)
         ELSE IF hits = {} THEN Returned("find_similar_people", call, <<>>)
         ELSE IF person_idx > Len(Val(similarity_matrix)) THEN Raised("find_similar_people", call)
         ELSE IF \E p \in 1..Len(similar_indices) : similar_indices[p] > Len(df)
              THEN Raised("find_similar_people", call)
         ELSE Returned("find_similar_people", call,
                  [p \in 1..Len(similar_indices) |->
                      <<df[similar_indices[p]].name, similarities[similar_indices[p]]>>])

find_similar_people(person_name, k) ==
    LET call == <<person_name, k>>
        df == Val(people_data)
        hits == {i \in 1..Len(df) : df[i].name = person_name}
        person_idx == CHOOSE i \in hits : \A j \in hits : i <= j
        similarities == Val(similarity_matrix)[person_idx]
        similar_indices == Slice(Reverse(argsort(similarities, argsort_ties)), 1, k + 1)
    IN
    /\ UNCHANGED <<engine, argsort_ties, kmeans_numbering, hist>>
    /\ last' =
         IF similarity_matrix = None THEN Raised("find_similar_people", call)
         ELSE IF ~HasColumns(df) THEN Raised("find_similar_people", call)
         ELSE IF hits = {} THEN Raised("find_similar_people", call)
         ELSE IF person_idx > Len(Val(similarity_matrix)) THEN Raised("find_similar_people", call)
         ELSE IF \E p \in 1..Len(similar_indices) : similar_indices[p] > Len(df)
              THEN Raised("find_similar_people", call)
         ELSE Returned("find_similar_people", call,
                  [p \in 1..Len(similar_indices) |->
                      <<df[similar_indices[p]].name, similarities[similar_indices[p]]>>])

FindSimilarPeople ==
    \E name \in Names \cup {UnknownName}, k \in KValues :
        find_similar_people(name, k) /\ UNCHANGED callers

(***************************************************************************)
(* get_cluster_members                                                     *)
(***************************************************************************)
ClusterIds == 0..MaxClusters

\* get_cluster_members without the test of lines 189-190: labels that are not
\* set are read as no labels.
ClusterMembersAnswerUnchecked(cluster_id) ==
    LET call == <<cluster_id>>
        labels == IF cluster_labels = None THEN <<>> ELSE Val(cluster_labels)
        df == Val(people_data)
        matching == SelectSeq([i \in 1..Len(labels) |-> i], LAMBDA i : labels[i] = cluster_id)
    IN  IF \E p \in 1..Len(matching) : matching[p] > Len(df)
        THEN Raised("get_cluster_members", call)
        ELSE Returned("get_cluster_members", call,
                 [p \in 1..Len(matching) |-> df[matching[p]].name])

\* What get_cluster_members(cluster_id) answers in the current state.
ClusterMembersAnswer(cluster_id) ==
    LET call == <<cluster_id>>
        labels == Val(cluster_labels)
        df == Val(people_data)
        matching == SelectSeq([i \in 1..Len(labels) |-> i], LAMBDA i : labels[i] = cluster_id)
    IN  IF cluster_labels = None THEN Raised("get_cluster_members", call)
        ELSE IF \E p \in 1..Len(matching) : matching[p] > Len(df)
             THEN Raised("get_cluster_members", call)
        ELSE Returned("get_cluster_members", call,
                 [p \in 1..Len(matching) |-> df[matching[p]].name])

get_cluster_members(cluster_id) ==
    /\ UNCHANGED <<engine, argsort_ties, kmeans_numbering, hist>>
    /\ last' = ClusterMembersAnswer(cluster_id)

GetClusterMembers == \E c \in ClusterIds : get_cluster_members(c) /\ UNCHANGED callers

(***************************************************************************)
(* find_top_k_similar_pairs                                                *)
(***************************************************************************)
\* The pairs (i, j), i < j < n, in the order of the two loops.
PairsInOrder(n) ==
    SelectSeq([x \in 1..(n * n) |-> <<((x - 1) \div n) + 1, ((x - 1) % n) + 1>>],
              LAMBDA p : p[1] < p[2])

\* sorted(key)[::-1]: descending, equal keys in reverse order.
SortAscendingReversed(keys) ==
    Reverse(SortSeq([i \in 1..Len(keys) |-> i],
                    LAMBDA a, b : ScoreLess(keys[a], keys[b]) \/ (keys[a] = keys[b] /\ a < b)))

\* list.sort(key, reverse=True): descending; equal keys keep their order.
SortDescending(keys) ==
    SortSeq([i \in 1..Len(keys) |-> i],
            LAMBDA a, b : ScoreLess(keys[b], keys[a]) \/ (keys[a] = keys[b] /\ a < b))

find_top_k_similar_pairs(k) ==
    LET call == <<k>>
        df == Val(people_data)
        sim == Val(similarity_matrix)
        n == Len(df)
        pairs == PairsInOrder(n)
        order == SortDescending([p \in 1..Len(pairs) |-> sim[pairs[p][1]][pairs[p][2]]])
        top == Slice(order, 0, k)
    IN
    /\ UNCHANGED <<engine, argsort_ties, kmeans_numbering, hist>>
    /\ last' =
         IF similarity_matrix = None THEN Raised("find_top_k_similar_pairs", call)
         ELSE IF \E p \in 1..Len(pairs) : pairs[p][2] > Len(sim)
              THEN Raised("find_top_k_similar_pairs", call)
         ELSE Returned("find_top_k_similar_pairs", call,
                  [r \in 1..Len(top) |->
                      <<df[pairs[top[r]][1]].name, df[pairs[top[r]][2]].name,
                        sim[pairs[top[r]][1]][pairs[top[r]][2]]>>])

FindTopKSimilarPairs ==
    \E k \in KValues : find_top_k_similar_pairs(k) /\ UNCHANGED callers

(***************************************************************************)
(* get_feature_importance                                                  *)
(***************************************************************************)
\* np.std(F, axis=0)[j], squared, as a reduced fraction.
ColumnStd(F, j) ==
    LET n == Len(F)
        sum == SumSeq([i \in 1..n |-> F[i][j][1]])
        sumsq == SumSeq([i \in 1..n |-> F[i][j][1] * F[i][j][1]])
        num == n * sumsq - sum * sum
        den == n * n * F[1][j][2]
        g == GCD(num, den)
    IN  <<num \div g, den \div g>>

get_feature_importance(n_features) ==
    LET call == <<n_features>>
        F == Val(feature_matrix)
        feature_importance == [j \in 1..Len(F[1]) |-> ColumnStd(F, j)]
        feature_names == Val(vocabulary_)
        top_indices == Slice(Reverse(argsort(feature_importance, argsort_ties)), 0, n_features)
    IN
    /\ UNCHANGED <<engine, argsort_ties, kmeans_numbering, hist>>
    /\ last' =
         IF feature_matrix = None THEN Raised("get_feature_importance", call)
         ELSE Returned("get_feature_importance", call,
                  [r \in 1..Len(top_indices) |->
                      <<feature_names[top_indices[r]], feature_importance[top_indices[r]]>>])

GetFeatureImportance ==
    \E n \in KValues : get_feature_importance(n) /\ UNCHANGED callers

Next ==
    \/ AddPeople
    \/ AddPerson
    \/ ClusterPeople
    \/ FindSimilarPeople
    \/ FindTopKSimilarPairs
    \/ GetClusterMembers
    \/ GetFeatureImportance

Spec == Init /\ [][Next]_vars

(***************************************************************************)
(* Text.  A str is the sequence of its characters.                         *)
(***************************************************************************)
UpperCase ==
    <<"A", "B", "C", "D", "E", "F", "G", "H", "I", "J", "K", "L", "M",
      "N", "O", "P", "Q", "R", "S", "T", "U", "V", "W", "X", "Y", "Z">>
LowerCase ==
    <<"a", "b", "c", "d", "e", "f", "g", "h", "i", "j", "k", "l", "m",
      "n", "o", "p", "q", "r", "s", "t", "u", "v", "w", "x", "y", "z">>

\* text.lower()
lower(text) ==
    [i \in 1..Len(text) |->
        IF \E u \in 1..Len(UpperCase) : UpperCase[u] = text[i]
        THEN LowerCase[CHOOSE u \in 1..Len(UpperCase) : UpperCase[u] = text[i]]
        ELSE text[i]]

\* needle in text
In(needle, text) ==
    \E i \in 0..(Len(text) - Len(needle)) : SubSeq(text, i + 1, i + Len(needle)) = needle

\* str(i) for a one-digit i
Digits == <<"0", "1", "2", "3", "4", "5", "6", "7", "8", "9">>
str(i) == <<Digits[i + 1]>>

\* The words _process_networking_task looks for.
w_similar == <<"s", "i", "m", "i", "l", "a", "r">>
w_cluster == <<"c", "l", "u", "s", "t", "e", "r">>
w_members == <<"m", "e", "m", "b", "e", "r", "s">>
w_top_pairs == <<"t", "o", "p", " ", "p", "a", "i", "r", "s">>

(***************************************************************************)
(* NetworkingAgentExecutor (src/adk/a2a_gateway.py).  The executor owns a  *)
(* PeopleNetworking engine, which __init__ fills with a sample corpus and  *)
(* clusters.  The model keeps three of the ten sample people, with texts   *)
(* of the model's alphabet, and clusters them into SampleClusters groups.  *)
(* A response is the record [kind, value] of what the response text says;  *)
(* an event also carries, as history, the request it answers.              *)
(***************************************************************************)
MaxEvents == 2
SampleClusters == 2

sample_people ==
    << <<"Alice", <<"the">>>>, <<"Bob", <<"pizza", "sushi">>>>, <<"Charlie", <<"pizza">>>> >>

\* The names the 'similar' branch looks for, in the order of its list.
KnownPeople ==
    << [name |-> "Alice", chars |-> <<"A", "l", "i", "c", "e">>],
       [name |-> "Bob", chars |-> <<"B", "o", "b">>],
       [name |-> "Charlie", chars |-> <<"C", "h", "a", "r", "l", "i", "e">>] >>

\* The methods of class PeopleNetworking.
PeopleNetworkingMethods ==
    {"add_people", "_vectorize_preferences", "cluster_people", "find_similar_people",
     "find_top_k_similar_pairs", "get_cluster_members", "visualize_clusters",
     "get_feature_importance"}

\* 'Find people similar to Alice'
FindSimilarToAlice ==
    <<"F", "i", "n", "d", " ", "p", "e", "o", "p", "l", "e", " ", "s", "i",
      "m", "i", "l", "a", "r", " ", "t", "o", " ", "A", "l", "i", "c", "e">>

\* 'Find people similar to Bob'
FindSimilarToBob ==
    <<"F", "i", "n", "d", " ", "p", "e", "o", "p", "l", "e", " ", "s", "i",
      "m", "i", "l", "a", "r", " ", "t", "o", " ", "B", "o", "b">>

\* 'Find similar people'
FindSimilarPeopleText ==
    <<"F", "i", "n", "d", " ", "s", "i", "m", "i", "l", "a", "r", " ", "p",
      "e", "o", "p", "l", "e">>

\* 'Cluster people'
ClusterPeopleText ==
    <<"C", "l", "u", "s", "t", "e", "r", " ", "p", "e", "o", "p", "l", "e">>

\* 'Show members of cluster 0'
ShowMembersOfCluster0 ==
    <<"S", "h", "o", "w", " ", "m", "e", "m", "b", "e", "r", "s", " ", "o",
      "f", " ", "c", "l", "u", "s", "t", "e", "r", " ", "0">>

\* 'Show members of cluster 1'
ShowMembersOfCluster1 ==
    <<"S", "h", "o", "w", " ", "m", "e", "m", "b", "e", "r", "s", " ", "o",
      "f", " ", "c", "l", "u", "s", "t", "e", "r", " ", "1">>

\* 'Show members'
ShowMembers ==
    <<"S", "h", "o", "w", " ", "m", "e", "m", "b", "e", "r", "s">>

\* 'Show top pairs'
ShowTopPairs ==
    <<"S", "h", "o", "w", " ", "t", "o", "p", " ", "p", "a", "i", "r", "s">>

\* 'Hello'
Hello ==
    <<"H", "e", "l", "l", "o">>

\* The texts of the requests: the four examples of the help text and others.
GatewayTexts ==
    {FindSimilarToAlice, FindSimilarToBob, FindSimilarPeopleText, ClusterPeopleText,
     ShowMembersOfCluster0, ShowMembersOfCluster1, ShowMembers, ShowTopPairs, Hello}

\* A message without parts, or without a text part: its text is empty.
NoText == <<>>

TextEvent(kind, value, request) ==
    [type |-> "text", text |-> [kind |-> kind, value |-> value], request |-> request]

\* __init__: add_people(sample_people), then cluster_people(n_clusters, 'kmeans').
\* The matrices of a corpus depend on its texts alone, so they are those
\* tabulated for the model's people with the same texts.
GatewayInit ==
    LET v == Vectorized[[i \in 1..Len(sample_people) |->
                            <<People[i], sample_people[i][2]>>]]
        df == DataFrame(sample_people)
    IN  /\ people_data = Some(df)
        /\ vocabulary_ = Some(v.vocabulary_)
        /\ scaler = Some(v.scaler)
        /\ feature_matrix = Some(v.feature_matrix)
        /\ similarity_matrix = Some(v.similarity_matrix)
        /\ \E b \in Builds :
              LET fit == FitPredict["kmeans", SampleClusters, v.feature_matrix, b[2]]
              IN  /\ argsort_ties = b[1]
                  /\ kmeans_numbering = b[2]
                  /\ cluster_labels = Some(fit.labels)
                  /\ last = Returned("cluster_people", <<SampleClusters, "kmeans">>,
                                [i \in 1..Len(df) |-> <<df[i].name, fit.labels[i]>>])
        /\ hist = [added |-> TRUE, ingested |-> TRUE, clustered |-> TRUE,
                   clustered_since_add |-> TRUE]
        /\ event_queue = <<>>
        /\ matching_frame = Idle
        /\ adding_frame = Idle
        /\ response = None

\* _process_networking_task(text) and the enqueue_event of its response.
\* Any exception is answered with the "Sorry, I encountered an error" text.
process_networking_task(text) ==
    LET t == lower(text)
        same == UNCHANGED <<engine, argsort_ties, kmeans_numbering, hist, last>>
        reply(kind, value) == event_queue' = Append(event_queue, TextEvent(kind, value, text))
    IN  IF In(w_similar, t)
        THEN LET named == SelectSeq(KnownPeople, LAMBDA p : In(lower(p.chars), t))
             IN  IF named # <<>>
                 THEN /\ find_similar_people(named[1].name, 3)
                      /\ IF last'.raised THEN reply("error", <<>>)
                         ELSE reply("similar", last'.value)
                 ELSE same /\ reply("ask_person", <<>>)
        ELSE IF In(w_cluster, t)
        THEN /\ cluster_people(SampleClusters, "kmeans")
             /\ IF last'.raised THEN reply("error", <<>>)
                ELSE reply("clusters", last'.value)
        ELSE IF In(w_members, t) /\ In(w_cluster, t)
        THEN LET ids == {i \in 0..3 : In(str(i), text)}
             IN  IF ids # {}
                 THEN /\ get_cluster_members(CHOOSE i \in ids : \A j \in ids : i <= j)
                      /\ IF last'.raised THEN reply("error", <<>>)
                         ELSE reply("members", last'.value)
                 ELSE same /\ reply("ask_cluster", <<>>)
        ELSE IF In(w_top_pairs, t)
        THEN \* self.networking.find_top_similar_pairs(k=5): AttributeError when
             \* the engine has no method of that name.
             IF "find_top_similar_pairs" \notin PeopleNetworkingMethods
             THEN same /\ reply("error", <<>>)
             ELSE /\ find_top_k_similar_pairs(5)
                  /\ IF last'.raised THEN reply("error", <<>>)
                     ELSE reply("pairs", last'.value)
        ELSE same /\ reply("help", <<>>)

\* execute(context, event_queue): a message without text is greeted.
execute(text) ==
    /\ Len(event_queue) < MaxEvents
    /\ UNCHANGED <<matching_frame, adding_frame, response>>
    /\ IF text = NoText
       THEN /\ UNCHANGED <<engine, argsort_ties, kmeans_numbering, hist, last>>
            /\ event_queue' = Append(event_queue, TextEvent("greeting", <<>>, text))
       ELSE process_networking_task(text)

Execute == \E text \in GatewayTexts \cup {NoText} : execute(text)

\* cancel(context, event_queue)
Cancel ==
    /\ Len(event_queue) < MaxEvents
    /\ event_queue' = Append(event_queue, TextEvent("cancelled", <<>>, NoText))
    /\ UNCHANGED <<engine, argsort_ties, kmeans_numbering, hist, last,
                   matching_frame, adding_frame, response>>

\* The request handler takes the oldest event off the queue.
DequeueEvent ==
    /\ event_queue # <<>>
    /\ event_queue' = Tail(event_queue)
    /\ UNCHANGED <<engine, argsort_ties, kmeans_numbering, hist, last,
                   matching_frame, adding_frame, response>>

GatewayNext ==
    \/ Execute
    \/ Cancel
    \/ DequeueEvent

GatewaySpec == GatewayInit /\ [][GatewayNext]_vars

(***************************************************************************)
(* NetworkingTaskManager (src/adk/networking_agent_a2a.py).  Its           *)
(* coroutines run on one event loop: the code between two awaits is one    *)
(* step, and at an await another coroutine may run.  The model has at most *)
(* one _handle_similarity_matching and one add_person_to_network in        *)
(* flight.  The vector store is outside the model: the awaits on it are    *)
(* kept as the places where a coroutine is suspended, its results are not. *)
(* A response carries, as history, the people_data and similarity_matrix   *)
(* each of its two lists was computed from.                                *)
(***************************************************************************)
default_k == 5
max_pairs == 10

\* _extract_number_from_input: the first number of the text, or the default.
ExtractedNumbers == (1..MaxK) \cup {default_k}

\* d[key] = value on a dict: the value of a key it has is replaced in place,
\* a new key goes to the end.
DictSet(d, key, value) ==
    IF \E i \in 1..Len(d) : d[i][1] = key
    THEN [i \in 1..Len(d) |-> IF d[i][1] = key THEN <<key, value>> ELSE d[i]]
    ELSE Append(d, <<key, value>>)

\* What the engine holds when a list is computed.
CorpusRead == similarity_matrix

\* _handle_similarity_matching up to its first await: knn_search when the
\* text names nobody, else find_similar_users after find_similar_people.
\* The request has no response yet.
similarity_matching_begin(target_person, k) ==
    LET same == UNCHANGED <<engine, argsort_ties, kmeans_numbering, hist, last>>
    IN
    /\ matching_frame = Idle
    /\ response' = None
    /\ UNCHANGED <<event_queue, adding_frame>>
    /\ IF target_person = None
       THEN /\ same
            /\ matching_frame' = [pc |-> "knn_search", k |-> k]
       ELSE IF people_data = None
       THEN /\ same
            /\ matching_frame' = [pc |-> "find_similar_users",
                                  target_person |-> Val(target_person), k |-> k,
                                  traditional_similar |-> <<>>, traditional_from |-> None]
       ELSE /\ find_similar_people(Val(target_person), k)
            /\ matching_frame' = [pc |-> "find_similar_users",
                                  target_person |-> Val(target_person), k |-> k,
                                  traditional_similar |->
                                      IF last'.raised THEN <<>> ELSE last'.value,
                                  traditional_from |->
                                      IF last'.raised THEN None ELSE Some(CorpusRead)]

SimilarityMatchingBegin ==
    \E target_person \in {None} \cup {Some(n) : n \in Names \cup {UnknownName}},
       k \in ExtractedNumbers :
        similarity_matching_begin(target_person, k)

\* _handle_similarity_matching from its await to its return.
SimilarityMatchingResume ==
    LET same == UNCHANGED <<engine, argsort_ties, kmeans_numbering, hist, last>>
        frame == matching_frame
    IN
    /\ frame # Idle
    /\ matching_frame' = Idle
    /\ UNCHANGED <<event_queue, adding_frame>>
    /\ IF frame.pc = "knn_search"
       THEN /\ same
            /\ response' = Some([search_type |-> "preference_based"])
       ELSE IF people_data = None
       THEN /\ same
            /\ response' = Some([search_type |-> "person",
                                 target_person |-> frame.target_person,
                                 traditional_similarity |-> frame.traditional_similar,
                                 top_similar_pairs |-> <<>>,
                                 traditional_from |-> frame.traditional_from,
                                 pairs_from |-> None])
       ELSE /\ find_top_k_similar_pairs(Min(max_pairs, Len(Val(people_data))))
            /\ response' = Some([search_type |-> "person",
                                 target_person |-> frame.target_person,
                                 traditional_similarity |-> frame.traditional_similar,
                                 top_similar_pairs |->
                                     IF last'.raised THEN <<>> ELSE last'.value,
                                 traditional_from |-> frame.traditional_from,
                                 pairs_from |->
                                     IF last'.raised THEN None ELSE Some(CorpusRead)])

\* add_person_to_network up to its await: the corpus held, with the new
\* person, goes to add_people; when add_people raises so does the coroutine.
add_person_to_network(person_name, preferences) ==
    LET held == IF people_data = None THEN <<>> ELSE MappingOf(Val(people_data))
        current_people == DictSet(held, person_name, preferences)
    IN
    /\ adding_frame = Idle
    /\ current_people \in Mappings \cup Profiles
    /\ add_people(current_people)
    /\ last' = IF Vectorized[current_people].raises
               THEN Raised("add_people", <<current_people>>)
               ELSE Returned("add_people", <<current_people>>, <<>>)
    /\ adding_frame' = IF Vectorized[current_people].raises THEN Idle
                       ELSE [pc |-> "add_user_preferences"]
    /\ UNCHANGED <<event_queue, matching_frame, response>>

AddPersonToNetwork ==
    \E n \in Names : \E t \in Prefs[n] : add_person_to_network(n, t)

\* add_person_to_network from its await to its end.
AddPersonToNetworkResume ==
    /\ adding_frame # Idle
    /\ adding_frame' = Idle
    /\ UNCHANGED <<engine, argsort_ties, kmeans_numbering, hist, last, event_queue,
                   matching_frame, response>>

TaskManagerNext ==
    \/ SimilarityMatchingBegin
    \/ SimilarityMatchingResume
    \/ AddPersonToNetwork
    \/ AddPersonToNetworkResume

TaskManagerSpec == Init /\ [][TaskManagerNext]_vars

(***************************************************************************)
(* Properties.  hist records what the calls so far did: added is TRUE when *)
(* add_people has been called, ingested when the latest add_people         *)
(* returned, clustered when some cluster_people                            *)
(* has returned, clustered_since_add when one has returned since the       *)
(* latest add_people.                                                      *)
(***************************************************************************)

\* C1: after cluster_people has succeeded and add_people has then ingested a
\* new corpus, every get_cluster_members call made before the next successful
\* cluster_people raises; none returns a list built from the earlier labels.
C1_StaleLabelsNotQueryable ==
    (/\ last.op = "get_cluster_members"
     /\ hist.clustered
     /\ hist.ingested
     /\ ~hist.clustered_since_add) => last.raised

\* C2: an add_people call that raises leaves people_data, feature_matrix,
\* similarity_matrix and cluster_labels exactly as they were before the call.
C2_FailedAddPeopleChangesNothing ==
    [][(last'.op = "add_people" /\ last'.raised)
          => UNCHANGED <<people_data, feature_matrix, similarity_matrix, cluster_labels>>]_vars

\* C3: in every reachable state, a similarity_matrix that is set is N x N and
\* feature_matrix has N rows, N being the number of rows of the current
\* people_data, and both are the ones computed from the current people_data.
C3_MatricesMatchCorpus ==
    similarity_matrix # None =>
        /\ people_data # None
        /\ feature_matrix # None
        /\ LET df == Val(people_data)
               sim == Val(similarity_matrix)
               v == Vectorized[MappingOf(df)]
           IN  /\ Len(sim) = Len(df)
               /\ \A i \in 1..Len(sim) : Len(sim[i]) = Len(df)
               /\ Len(Val(feature_matrix)) = Len(df)
               /\ ~v.raises
               /\ sim = v.similarity_matrix
               /\ Val(feature_matrix) = v.feature_matrix

\* C4: on a successfully ingested corpus, no pair returned by
\* find_similar_people(name, k) has name itself as its first component.
C4_NeverReturnsSelf ==
    (last.op = "find_similar_people" /\ ~last.raised /\ hist.ingested) =>
        \A p \in 1..Len(last.value) : last.value[p][1] # last.args[1]

\* C5: right after a successful cluster_people(n, method), the lists
\* get_cluster_members(c), c = 0..n-1, are pairwise disjoint and their union
\* is exactly the set of the current entities.
C5_ClustersPartitionEntities ==
    (last.op = "cluster_people" /\ ~last.raised) =>
        LET n == last.args[1]
            df == Val(people_data)
            answer == [c \in 0..(n - 1) |-> ClusterMembersAnswer(c)]
        IN  /\ \A c \in 0..(n - 1) : ~answer[c].raised
            /\ \A c, d \in 0..(n - 1) :
                   c # d => Range(answer[c].value) \cap Range(answer[d].value) = {}
            /\ UNION {Range(answer[c].value) : c \in 0..(n - 1)}
                   = {df[i].name : i \in 1..Len(df)}

\* C6: a cluster_people call that raises leaves cluster_labels and the rest
\* of the engine unchanged, so get_cluster_members answers as it did before.
C6_FailedClusterPeopleChangesNothing ==
    [][(last'.op = "cluster_people" /\ last'.raised)
          => /\ UNCHANGED engine
             /\ \A c \in ClusterIds : ClusterMembersAnswer(c)' = ClusterMembersAnswer(c)]_vars

\* C7: on an engine whose corpus is ingested and on which no cluster_people
\* call has succeeded, get_cluster_members raises for every cluster id.
C7_MembersBeforeClusteringRaises ==
    (last.op = "get_cluster_members" /\ hist.ingested /\ ~hist.clustered) => last.raised

\* C8: add_people with a single name succeeds, and find_similar_people on
\* that one entity then returns the empty list.
C8_SingleEntityCorpus ==
    /\ (/\ last.op = "add_people"
        /\ people_data # None
        /\ Len(Val(people_data)) = 1) => ~last.raised
    /\ (/\ last.op = "find_similar_people"
        /\ hist.ingested
        /\ Len(Val(people_data)) = 1
        /\ last.args[1] = Val(people_data)[1].name) => (~last.raised /\ last.value = <<>>)

\* The names held by the engine's corpus.
CorpusNames(pd) == IF pd = None THEN {} ELSE {Val(pd)[i].name : i \in 1..Len(Val(pd))}

\* C9: POST /networking/add-person succeeds, and afterwards the corpus holds
\* every person it held before plus the new one.
C9_AddPersonExtendsCorpus ==
    [][last'.op = "add_person"
          => /\ ~last'.raised
             /\ CorpusNames(people_data') = CorpusNames(people_data) \cup {last'.args[1]}]_vars

\* The row of a name in the current frame.
RowOf(name) ==
    CHOOSE i \in 1..Len(Val(people_data)) : Val(people_data)[i].name = name

\* C10: the list find_similar_people returns is in non-increasing order of
\* score, and entities of equal score are in ingestion order, lower row first.
C10_DescendingStableOrder ==
    (last.op = "find_similar_people" /\ ~last.raised /\ hist.ingested) =>
        \A p, q \in 1..Len(last.value) :
            p < q =>
                /\ ~ScoreLess(last.value[p][2], last.value[q][2])
                /\ last.value[p][2] = last.value[q][2]
                       => RowOf(last.value[p][1]) < RowOf(last.value[q][1])

\* C11: for every name of the current corpus and every k >= 0,
\* find_similar_people(name, k) returns exactly min(k, N-1) pairs, N being
\* the number of entities of the current corpus.
C11_SimilarPeopleCount ==
    (/\ last.op = "find_similar_people"
     /\ similarity_matrix # None
     /\ last.args[1] \in CorpusNames(people_data)
     /\ last.args[2] >= 0)
        => /\ ~last.raised
           /\ Len(last.value) = Min(last.args[2], Len(Val(people_data)) - 1)

\* C12: find_similar_people with a name that is not in the current corpus
\* raises, returns no list, and leaves the engine state unchanged.
C12_UnknownNameRaises ==
    [][(last'.op = "find_similar_people" /\ last'.args[1] \notin CorpusNames(people_data))
          => (last'.raised /\ UNCHANGED engine)]_vars

\* An unknown name was looked up on an ingested corpus.
C12_Witness ==
    /\ last.op = "find_similar_people"
    /\ hist.ingested
    /\ last.args[1] \notin CorpusNames(people_data)
    /\ last.raised

\* C13: for every k >= 0, find_top_k_similar_pairs(k) returns exactly
\* min(k, N(N-1)/2) triples; no unordered pair of entities appears twice and
\* no triple pairs an entity with itself.
C13_TopPairsCount ==
    (/\ last.op = "find_top_k_similar_pairs"
     /\ similarity_matrix # None
     /\ last.args[1] >= 0)
        => LET N == Len(Val(people_data))
               v == last.value
           IN  /\ ~last.raised
               /\ Len(v) = Min(last.args[1], (N * (N - 1)) \div 2)
               /\ \A r \in 1..Len(v) : v[r][1] # v[r][2]
               /\ \A r, t \in 1..Len(v) :
                      r # t => {v[r][1], v[r][2]} # {v[t][1], v[t][2]}

\* C14: the triples find_top_k_similar_pairs returns are the highest-scoring
\* pairs of the similarity matrix, in non-increasing order of score, pairs of
\* equal score in the order of their row indices (i, j), i < j.
C14_TopPairsOrder ==
    (last.op = "find_top_k_similar_pairs" /\ ~last.raised) =>
        LET sim == Val(similarity_matrix)
            N == Len(Val(people_data))
            v == last.value
            Rows(r) == <<RowOf(v[r][1]), RowOf(v[r][2])>>
            returned == {Rows(r) : r \in 1..Len(v)}
        IN  /\ \A r \in 1..Len(v) :
                   /\ Rows(r)[1] < Rows(r)[2]
                   /\ v[r][3] = sim[Rows(r)[1]][Rows(r)[2]]
            /\ \A r, t \in 1..Len(v) :
                   r < t =>
                       /\ ~ScoreLess(v[r][3], v[t][3])
                       /\ v[r][3] = v[t][3] =>
                              \/ Rows(r)[1] < Rows(t)[1]
                              \/ Rows(r)[1] = Rows(t)[1] /\ Rows(r)[2] < Rows(t)[2]
            /\ \A i, j \in 1..N :
                   (i < j /\ <<i, j>> \notin returned) =>
                       \A r \in 1..Len(v) :
                           /\ ~ScoreLess(v[r][3], sim[i][j])
                           /\ v[r][3] = sim[i][j] =>
                                  \/ Rows(r)[1] < i
                                  \/ Rows(r)[1] = i /\ Rows(r)[2] < j

\* A returned pair has the score of another pair of the corpus.
C14_Witness ==
    /\ last.op = "find_top_k_similar_pairs"
    /\ ~last.raised
    /\ hist.ingested
    /\ \E r \in 1..Len(last.value) :
           \E i, j \in 1..Len(Val(people_data)) :
               /\ i < j
               /\ <<i, j>> # <<RowOf(last.value[r][1]), RowOf(last.value[r][2])>>
               /\ Val(similarity_matrix)[i][j] = last.value[r][3]

\* C15: with 'kmeans' and with 'hierarchical', cluster_people(n_clusters,
\* method) on an ingested corpus of N entities raises when n_clusters < 1 or
\* n_clusters > N and succeeds when 1 <= n_clusters <= N.
C15_ClusterCountChecked ==
    (/\ last.op = "cluster_people"
     /\ hist.ingested
     /\ last.args[2] \in {"kmeans", "hierarchical"})
        => (last.raised <=>
               (last.args[1] < 1 \/ last.args[1] > Len(Val(people_data))))

\* More clusters than entities were asked for, and the call raised.
C15_Witness ==
    /\ last.op = "cluster_people"
    /\ hist.ingested
    /\ last.args[2] = "hierarchical"
    /\ last.args[1] > Len(Val(people_data))
    /\ last.raised

\* C16: cluster_people with a method other than 'kmeans' and 'hierarchical'
\* raises and clusters nothing, whatever n_clusters is.
C16_UnknownMethodRaises ==
    [][(last'.op = "cluster_people" /\ last'.args[2] \notin {"kmeans", "hierarchical"})
          => (last'.raised /\ UNCHANGED engine)]_vars

\* An unknown method was given on an ingested corpus, with a number of
\* clusters the two known methods accept.
C16_Witness ==
    /\ last.op = "cluster_people"
    /\ hist.ingested
    /\ last.args[2] = "spectral"
    /\ last.args[1] >= 1
    /\ last.args[1] <= Len(Val(people_data))
    /\ last.raised

\* The mapping KMeans gives the corpus of the frame df for n clusters.
KMeansMappingOf(df, n_clusters, numbering) ==
    LET F == Vectorized[MappingOf(df)].feature_matrix
        labels == FitPredict["kmeans", n_clusters, F, numbering].labels
    IN  [i \in 1..Len(df) |-> <<df[i].name, labels[i]>>]

\* C17: cluster_people(n, 'kmeans') on an ingested corpus returns a mapping
\* fixed by the corpus, n and the configuration alone, so two calls with the
\* same n on the same corpus, on one engine or on two, return the same mapping.
C17_KMeansDeterministic ==
    (/\ last.op = "cluster_people"
     /\ ~last.raised
     /\ last.args[2] = "kmeans"
     /\ hist.ingested)
        => last.value = KMeansMappingOf(Val(people_data), last.args[1], kmeans_numbering)

\* KMeans returned a mapping with two different labels on an ingested corpus.
C17_Witness ==
    /\ last.op = "cluster_people"
    /\ ~last.raised
    /\ last.args[2] = "kmeans"
    /\ last.args[1] >= 2
    /\ hist.ingested
    /\ \E i \in 1..Len(last.value) : last.value[i][2] # last.value[1][2]

\* C18: in the mapping cluster_people returns, the labels are numbered from 0
\* by first appearance in ingestion order: the first entity has label 0 and
\* every entity's label is at most one more than the largest label before it.
C18_LabelsByFirstAppearance ==
    (last.op = "cluster_people" /\ ~last.raised) =>
        LET v == last.value
        IN  \A i \in 1..Len(v) :
                /\ v[i][2] >= 0
                /\ v[i][2] <= MaxSeq([j \in 1..(i - 1) |-> v[j][2]]) + 1

\* The operations that need an ingested corpus.
NeedCorpus ==
    {"cluster_people", "find_similar_people", "find_top_k_similar_pairs",
     "get_feature_importance", "get_cluster_members"}

\* C19: on an engine on which add_people was never called, cluster_people,
\* find_similar_people, find_top_k_similar_pairs, get_feature_importance and
\* get_cluster_members raise and leave people_data, feature_matrix,
\* similarity_matrix and cluster_labels unset.
C19_UninitializedRaises ==
    (~hist.added /\ last.op \in NeedCorpus) =>
        /\ last.raised
        /\ people_data = None
        /\ feature_matrix = None
        /\ similarity_matrix = None
        /\ cluster_labels = None

\* get_cluster_members was called before any add_people.
C19_Witness ==
    /\ ~hist.added
    /\ last.op = "get_cluster_members"
    /\ last.raised

\* The query operations.
Queries ==
    {"find_similar_people", "find_top_k_similar_pairs", "get_cluster_members",
     "get_feature_importance"}

\* C20: the four queries are pure reads: returning or raising, they leave
\* people_data, feature_matrix, similarity_matrix, cluster_labels and the
\* fitted vocabulary unchanged, and the same query repeated in the same state
\* gives the same result.
C20_QueriesArePureReads ==
    [][last'.op \in Queries
          => /\ UNCHANGED <<people_data, feature_matrix, similarity_matrix,
                            cluster_labels, vocabulary_>>
             /\ (last.op = last'.op /\ last.args = last'.args) => last' = last]_vars

\* A query returned entities on an engine that is ingested and clustered.
C20_Witness ==
    /\ last.op = "find_similar_people"
    /\ ~last.raised
    /\ Len(last.value) > 0
    /\ hist.ingested
    /\ cluster_labels # None

\* What an engine just constructed holds after add_people with the mapping X
\* returned.
FreshEngine(X) ==
    LET v == vectorize_preferences(DataFrame(X))
    IN  [vocabulary_ |-> Some(v.vocabulary_), scaler |-> Some(v.scaler),
         feature_matrix |-> Some(v.feature_matrix),
         similarity_matrix |-> Some(v.similarity_matrix)]

\* C21: after any earlier operations, a successful add_people(X) leaves the
\* vocabulary, the scaler's statistics, feature_matrix and similarity_matrix
\* equal to those of a fresh engine after add_people(X).
C21_IngestionStartsAfresh ==
    (last.op = "add_people" /\ ~last.raised) =>
        LET fresh == FreshEngine(MappingOf(Val(people_data)))
        IN  /\ vocabulary_ = fresh.vocabulary_
            /\ scaler = fresh.scaler
            /\ feature_matrix = fresh.feature_matrix
            /\ similarity_matrix = fresh.similarity_matrix

\* add_people returned on an engine that holds the labels of a corpus of
\* another size.
C21_Witness ==
    /\ last.op = "add_people"
    /\ ~last.raised
    /\ cluster_labels # None
    /\ Len(Val(cluster_labels)) # Len(Val(people_data))

\* C22: after a successful add_people(X) the frame has one row per key of X,
\* in X's iteration order, each with X's value for that key, and no other
\* row: the rows of earlier ingestions are gone.
C22_IngestionReplacesCorpus ==
    (last.op = "add_people" /\ ~last.raised) =>
        LET X == last.args[1]
            df == Val(people_data)
        IN  /\ Len(df) = Len(X)
            /\ \A i \in 1..Len(X) :
                   df[i].name = X[i][1] /\ df[i].preferences = X[i][2]
            /\ CorpusNames(people_data) = {X[i][1] : i \in 1..Len(X)}
            /\ \A i, j \in 1..Len(df) : i # j => df[i].name # df[j].name

\* add_people returned with a mapping of fewer names than the labels of an
\* earlier, larger corpus.
C22_Witness ==
    /\ last.op = "add_people"
    /\ ~last.raised
    /\ cluster_labels # None
    /\ Len(Val(cluster_labels)) > Len(last.args[1])

\* C23: add_people raises when its mapping is empty and when stop-word and
\* document-frequency filtering leaves no vocabulary term.
C23_DegenerateCorpusRaises ==
    last.op = "add_people" =>
        LET X == last.args[1]
            docs == [i \in 1..Len(X) |-> X[i][2]]
        IN  (Len(X) = 0 \/ KeptTerms(docs) = {}) => last.raised

\* add_people raised on two or more people whose texts leave no term.
C23_Witness ==
    /\ last.op = "add_people"
    /\ last.raised
    /\ Len(last.args[1]) >= 2
    /\ KeptTerms([i \in 1..Len(last.args[1]) |-> last.args[1][i][2]]) = {}

\* The column of a term in the fitted vocabulary.
ColumnOf(term) ==
    CHOOSE j \in 1..Len(Val(vocabulary_)) : Val(vocabulary_)[j] = term

\* C24: get_feature_importance(n), n >= 0, returns min(n, V) pairs (term,
\* score), V being the size of the vocabulary, in non-increasing order of
\* score, terms of equal score in vocabulary order, lower column first.
C24_FeatureImportanceOrder ==
    (last.op = "get_feature_importance" /\ ~last.raised /\ last.args[1] >= 0) =>
        LET v == last.value
        IN  /\ Len(v) = Min(last.args[1], Len(Val(vocabulary_)))
            /\ \A p, q \in 1..Len(v) :
                   p < q =>
                       /\ ~ScoreLess(v[p][2], v[q][2])
                       /\ v[p][2] = v[q][2] => ColumnOf(v[p][1]) < ColumnOf(v[q][1])

\* C25: on a successfully ingested corpus of exactly 2 entities,
\* cluster_people(2, method), with either method, puts one entity in each
\* cluster: get_cluster_members(0) and get_cluster_members(1) are singletons
\* that partition the two names.
C25_TwoEntitiesTwoClusters ==
    (/\ last.op = "cluster_people"
     /\ hist.ingested
     /\ Len(Val(people_data)) = 2
     /\ last.args[1] = 2
     /\ last.args[2] \in {"kmeans", "hierarchical"})
        => /\ ~last.raised
           /\ LET zero == ClusterMembersAnswer(0)
                  one == ClusterMembersAnswer(1)
              IN  /\ ~zero.raised /\ ~one.raised
                  /\ Len(zero.value) = 1 /\ Len(one.value) = 1
                  /\ zero.value[1] # one.value[1]
                  /\ {zero.value[1], one.value[1]} = CorpusNames(people_data)

\* KMeans returned two clusters on a corpus of two entities.
C25_Witness ==
    /\ last.op = "cluster_people"
    /\ hist.ingested
    /\ Len(Val(people_data)) = 2
    /\ last.args = <<2, "kmeans">>
    /\ ~last.raised

\* C27: the similarity matrix of a successfully ingested corpus is
\* symmetric: similarity_matrix[i][j] = similarity_matrix[j][i] for all i, j.
C27_SimilaritySymmetric ==
    similarity_matrix # None =>
        LET sim == Val(similarity_matrix)
        IN  \A i, j \in 1..Len(sim) : sim[i][j] = sim[j][i]

\* A corpus is ingested whose matrix has an entry off the diagonal that is
\* neither 0 nor 1 nor -1.
C27_Witness ==
    /\ hist.ingested
    /\ similarity_matrix # None
    /\ \E i, j \in 1..Len(Val(similarity_matrix)) :
           i # j /\ Val(similarity_matrix)[i][j][2] # 1

\* C28: after a cluster_people call has returned a mapping M, and with no
\* add_people call since, get_cluster_members(c) returns exactly the names n
\* with M[n] = c, in ingestion order; for an id no entity has, that is the
\* empty list, and the call does not raise.
C28_MembersAgreeWithMapping ==
    (last.op = "get_cluster_members" /\ hist.clustered_since_add) =>
        LET df == Val(people_data)
            M == [i \in 1..Len(df) |-> <<df[i].name, Val(cluster_labels)[i]>>]
            rows == SelectSeq([i \in 1..Len(df) |-> i], LAMBDA i : M[i][2] = last.args[1])
        IN  /\ ~last.raised
            /\ last.value = [p \in 1..Len(rows) |-> M[rows[p]][1]]

\* C30: find_similar_people(name, k) and find_top_k_similar_pairs(k) never
\* return more than max(k, 0) results, so for every k <= 0, negative k
\* included, each returns the empty list.
C30_NonPositiveKReturnsNothing ==
    (last.op \in {"find_similar_people", "find_top_k_similar_pairs"} /\ ~last.raised) =>
        LET k == IF last.op = "find_similar_people" THEN last.args[2] ELSE last.args[1]
        IN  Len(last.value) <= (IF k > 0 THEN k ELSE 0)

\* The operation each example of the help text asks for.
ExampleKind(request) ==
    CASE request = FindSimilarToAlice -> "similar"
      [] request = ClusterPeopleText -> "clusters"
      [] request = ShowMembersOfCluster0 -> "members"
      [] request = ShowTopPairs -> "pairs"

\* C26: every request of the gateway's help text is answered by its own
\* operation: 'Show members of cluster 0' by get_cluster_members, without
\* clustering again, and 'Show top pairs' by the top similar pairs, not by an
\* error.
C26_EveryRequestKindIsRouted ==
    \A i \in 1..Len(event_queue) :
        LET e == event_queue[i]
        IN  e.request \in {FindSimilarToAlice, ClusterPeopleText, ShowMembersOfCluster0,
                           ShowTopPairs}
                => e.text.kind = ExampleKind(e.request)

\* C29: however add_person_to_network and _handle_similarity_matching are
\* interleaved at their awaits, the traditional_similarity list and the
\* top_similar_pairs list of one response are computed from the same corpus
\* and similarity matrix.
C29_ResponseFromOneCorpus ==
    (/\ response # None
     /\ Val(response).search_type = "person"
     /\ Val(response).traditional_from # None
     /\ Val(response).pairs_from # None)
        => Val(response).traditional_from = Val(response).pairs_from

====
